---- MODULE Spec2Model ----
(***************************************************************************)
(* A model of the repository layer of rust-todo: the todo and label        *)
(* repositories (durable and in-memory backends) and the row folder        *)
(* fold_entities / fold_entity of src/src/repositories/todo.rs.            *)
(***************************************************************************)
EXTENDS Integers, Sequences, FiniteSets, TLC

(***************************************************************************)
(* Bounds of the model.                                                    *)
(***************************************************************************)
\* the in-memory stores hold at most this many entities
MaxTodos == 2
\* the durable tables hand out at most this many serial ids
MaxSerial == 2
\* fold_entities is applied to row sequences of at most this length
MaxRows == 3
\* number of client tasks that call the shared in-memory store concurrently
NumClients == 2
\* the client tasks issue at most this many calls in all
MaxCalls == 3

(***************************************************************************)
(* Input domains.                                                          *)
(***************************************************************************)
Texts == {"a", "b"}
Names == {"x", "y"}
\* ids a caller may pass: the ids a store can hold, plus 0 and one beyond
MemIds == 0..(MaxTodos + 1)
DbIds == 0..(MaxSerial + 1)

(***************************************************************************)
(* Option<T>: None is the empty tuple, Some(v) the one-element tuple.      *)
(***************************************************************************)
None == <<>>
Some(v) == <<v>>
is_some(o) == Len(o) = 1
unwrap_or(o, d) == IF is_some(o) THEN o[1] ELSE d
OptionOf(S) == {None} \cup {Some(v) : v \in S}

(***************************************************************************)
(* Result<T, RepositoryError>.                                             *)
(***************************************************************************)
Ok(v) == [ok |-> TRUE, val |-> v]
Err(e) == [ok |-> FALSE, err |-> e]
NotFound(id) == [kind |-> "NotFound", id |-> id]
Duplicate(id) == [kind |-> "Duplicate", id |-> id]
Unexpected(msg) == [kind |-> "Unexpected", msg |-> msg]
Unit == "()"

(***************************************************************************)
(* Entities and payloads.                                                  *)
(***************************************************************************)
Label(id, name) == [id |-> id, name |-> name]
TodoEntity(id, text, completed, labels) ==
    [id |-> id, text |-> text, completed |-> completed, labels |-> labels]
\* TodoEntity::new with the wrong default for `completed`
TodoEntity_new_Completed(id, text) == TodoEntity(id, text, TRUE, <<>>)

TodoEntity_new(id, text) == TodoEntity(id, text, FALSE, <<>>)
CreateTodo == [text : Texts]
UpdateTodo == [text : OptionOf(Texts), completed : OptionOf(BOOLEAN)]
\* the payloads of the updates that run concurrently with other calls: a
\* text alone, completed alone, both
RacingUpdates ==
    {p \in UpdateTodo : \/ (p.text = Some("b") /\ p.completed = None)
                          \/ (p.text = None /\ p.completed = Some(TRUE))
                          \/ (p.text = Some("a") /\ p.completed = Some(FALSE))}
TodoWithLabelFromRow(id, text, completed, label_id, label_name) ==
    [id |-> id, text |-> text, completed |-> completed,
     label_id |-> label_id, label_name |-> label_name]

(***************************************************************************)
(* The row folder.  A Rust panic (unwrap on None, expect on None) is the   *)
(* outcome [panic |-> TRUE]; a normal return carries the value.            *)
(***************************************************************************)
Returned(v) == [panic |-> FALSE, val |-> v]
Panicked == [panic |-> TRUE, val |-> <<>>]

\* the position of the first entity of accum whose id is id, 0 when none
\* (the inner `while let Some(todo) = todos.next()` scan)
FindTodo(accum, id) ==
    IF \E j \in 1..Len(accum) : accum[j].id = id
    THEN CHOOSE j \in 1..Len(accum) :
            /\ accum[j].id = id
            /\ \A k \in 1..(j - 1) : accum[k].id # id
    ELSE 0

\* `Label { id: row.label_id.unwrap(), name: row.label_name.clone().unwrap() }`
RowLabelPanics(row) == ~is_some(row.label_id) \/ ~is_some(row.label_name)
RowLabel(row) == Label(row.label_id[1], row.label_name[1])

\* branch 1 that skips a label the entity already lists
PushLabel_Dedup(accum, j, row) ==
    IF RowLabelPanics(row)
    THEN Panicked
    ELSE IF \E k \in 1..Len(accum[j].labels) : accum[j].labels[k] = RowLabel(row)
         THEN Returned(accum)
         ELSE Returned([accum EXCEPT ![j].labels = Append(@, RowLabel(row))])

\* branch 1 of the loop body: the todo is already in accum
PushLabel(accum, j, row) ==
    IF RowLabelPanics(row)
    THEN Panicked
    ELSE Returned([accum EXCEPT ![j].labels = Append(@, RowLabel(row))])

\* branch 2 pushing every new TodoEntity without a label
PushTodo_Unlabelled(accum, row) ==
    Returned(Append(accum, TodoEntity(row.id, row.text, row.completed, <<>>)))

\* branch 2 of the loop body: a new TodoEntity is pushed
PushTodo(accum, row) ==
    IF is_some(row.label_id)
    THEN IF RowLabelPanics(row)
         THEN Panicked
         ELSE Returned(Append(accum,
                  TodoEntity(row.id, row.text, row.completed, <<RowLabel(row)>>)))
    ELSE Returned(Append(accum,
                  TodoEntity(row.id, row.text, row.completed, <<>>)))

\* one iteration of `'outer: while let Some(row) = rows.next()`
FoldRow(accum, row) ==
    LET j == FindTodo(accum, row.id)
    IN IF j # 0 THEN PushLabel(accum, j, row) ELSE PushTodo(accum, row)

RECURSIVE FoldFrom(_, _, _)
FoldFrom(rows, i, accum) ==
    IF i > Len(rows)
    THEN Returned(accum)
    ELSE LET step == FoldRow(accum, rows[i])
         IN IF step.panic THEN Panicked ELSE FoldFrom(rows, i + 1, step.val)

fold_entities(rows) == FoldFrom(rows, 1, <<>>)

fold_entity(row) ==
    LET todo_entities == fold_entities(<<row>>)
    IN IF todo_entities.panic \/ Len(todo_entities.val) = 0
       THEN Panicked
       ELSE Returned(todo_entities.val[1])

(***************************************************************************)
(* std::collections::HashMap, as a function from its key set.              *)
(***************************************************************************)
EmptyMap == <<>>
HashMapLen(m) == Cardinality(DOMAIN m)
HashMapInsert(m, k, v) == [x \in (DOMAIN m) \cup {k} |-> IF x = k THEN v ELSE m[x]]
HashMapRemove(m, k) == [x \in (DOMAIN m) \ {k} |-> m[x]]
\* `values()` visits the entries in an order the map does not fix: every
\* enumeration of the key set is a possible order
HashMapValues(m) ==
    LET n == HashMapLen(m)
        Orders == {o \in [1..n -> DOMAIN m] : \A i, j \in 1..n : i # j => o[i] # o[j]}
    IN {[i \in 1..n |-> m[o[i]]] : o \in Orders}

(***************************************************************************)
(* TodoRepositoryForMemory: each operation maps the store to the store it  *)
(* leaves and the result it returns.                                       *)
(***************************************************************************)
\* `let id = (store.len() + 1) as i32`
NextMemId(store) == HashMapLen(store) + 1

\* create that inserts the entity under the key `store.len()`
TodoRepositoryForMemory_create_KeyLen(store, payload) ==
    LET id == NextMemId(store)
        todo == TodoEntity_new(id, payload.text)
    IN [store |-> HashMapInsert(store, id - 1, todo), res |-> Ok(todo)]

TodoRepositoryForMemory_create(store, payload) ==
    LET id == NextMemId(store)
        todo == TodoEntity_new(id, payload.text)
    IN [store |-> HashMapInsert(store, id, todo), res |-> Ok(todo)]

TodoRepositoryForMemory_find(store, id) ==
    IF id \in DOMAIN store THEN Ok(store[id]) ELSE Err(NotFound(id))

\* the set of vectors `all` may return
TodoRepositoryForMemory_all(store) == {Ok(v) : v \in HashMapValues(store)}

\* update that attaches a label built from the todo to the entity it stores
TodoRepositoryForMemory_update_Labelled(store, id, payload) ==
    IF id \notin DOMAIN store
    THEN [store |-> store, res |-> Err(NotFound(id))]
    ELSE LET text == unwrap_or(payload.text, store[id].text)
             completed == unwrap_or(payload.completed, store[id].completed)
             todo == TodoEntity(id, text, completed, <<Label(id, text)>>)
         IN [store |-> HashMapInsert(store, id, todo), res |-> Ok(todo)]

\* update with `payload.completed.unwrap_or(false)`
TodoRepositoryForMemory_update_ResetCompleted(store, id, payload) ==
    IF id \notin DOMAIN store
    THEN [store |-> store, res |-> Err(NotFound(id))]
    ELSE LET text == unwrap_or(payload.text, store[id].text)
             completed == unwrap_or(payload.completed, FALSE)
             todo == TodoEntity(id, text, completed, <<>>)
         IN [store |-> HashMapInsert(store, id, todo), res |-> Ok(todo)]

\* update that stores the merged todo under a key computed as create does
TodoRepositoryForMemory_update_Rekeyed(store, id, payload) ==
    IF id \notin DOMAIN store
    THEN [store |-> store, res |-> Err(NotFound(id))]
    ELSE LET text == unwrap_or(payload.text, store[id].text)
             completed == unwrap_or(payload.completed, store[id].completed)
             todo == TodoEntity(id, text, completed, <<>>)
         IN [store |-> HashMapInsert(store, NextMemId(store), todo), res |-> Ok(todo)]

TodoRepositoryForMemory_update(store, id, payload) ==
    IF id \notin DOMAIN store
    THEN [store |-> store, res |-> Err(NotFound(id))]
    ELSE LET text == unwrap_or(payload.text, store[id].text)
             completed == unwrap_or(payload.completed, store[id].completed)
             todo == TodoEntity(id, text, completed, <<>>)
         IN [store |-> HashMapInsert(store, id, todo), res |-> Ok(todo)]

\* delete that drops the outcome of `remove`
TodoRepositoryForMemory_delete_AlwaysOk(store, id) ==
    [store |-> HashMapRemove(store, id), res |-> Ok(Unit)]

\* delete that looks the id up with `get` and removes nothing
TodoRepositoryForMemory_delete_Keeps(store, id) ==
    IF id \in DOMAIN store
    THEN [store |-> store, res |-> Ok(Unit)]
    ELSE [store |-> store, res |-> Err(NotFound(id))]

TodoRepositoryForMemory_delete(store, id) ==
    IF id \in DOMAIN store
    THEN [store |-> HashMapRemove(store, id), res |-> Ok(Unit)]
    ELSE [store |-> store, res |-> Err(NotFound(id))]

(***************************************************************************)
(* LabelRepositoryForMemory.                                               *)
(***************************************************************************)
Label_new(id, name) == Label(id, name)

LabelRepositoryForMemory_create(store, name) ==
    LET id == NextMemId(store)
        label == Label_new(id, name)
    IN [store |-> HashMapInsert(store, id, label), res |-> Ok(label)]

LabelRepositoryForMemory_all(store) == {Ok(v) : v \in HashMapValues(store)}

LabelRepositoryForMemory_delete(store, id) ==
    IF id \in DOMAIN store
    THEN [store |-> HashMapRemove(store, id), res |-> Ok(Unit)]
    ELSE [store |-> store, res |-> Err(NotFound(id))]

(***************************************************************************)
(* The relational store.  A table is its set of rows and the last value of *)
(* the serial that numbers inserted rows; a statement maps the table to    *)
(* the table it leaves and the rows it returns.                            *)
(***************************************************************************)
EmptyTable == [rows |-> {}, serial |-> 0]

RECURSIVE RowsDesc(_)
RowsDesc(S) ==
    IF S = {} THEN <<>>
    ELSE LET r == CHOOSE r \in S : \A q \in S : q.id <= r.id
         IN <<r>> \o RowsDesc(S \ {r})

RECURSIVE RowsAsc(_)
RowsAsc(S) ==
    IF S = {} THEN <<>>
    ELSE LET r == CHOOSE r \in S : \A q \in S : r.id <= q.id
         IN <<r>> \o RowsAsc(S \ {r})

\* sqlx::Error::RowNotFound, and an sqlx error that reaches the caller through `?`
RowNotFound == "RowNotFound"
SqlxError(e) == [kind |-> "sqlx", msg |-> e]
\* a panic inside the operation (no value is returned)
PanicOutcome == [ok |-> FALSE, err |-> [kind |-> "panic"]]
OkFolded(f) == IF f.panic THEN PanicOutcome ELSE Ok(f.val)

\* `.fetch_one`: the first row, or RowNotFound when the statement returned none
fetch_one(rows) == IF Len(rows) = 0 THEN Err(RowNotFound) ELSE Ok(rows[1])

\* `.map_err(|e| match e { RowNotFound => NotFound(id), _ => Unexpected(..) })`
MapSqlxError(e, id) == IF e = RowNotFound THEN NotFound(id) ELSE Unexpected(e)

\* a row of `todos` read into TodoWithLabelFromRow: the table carries no
\* label of its own, the label pair of the decoded row is null
DecodeTodoRow(r) == TodoWithLabelFromRow(r.id, r.text, r.completed, None, None)
DecodeTodoRows(rows) == [i \in 1..Len(rows) |-> DecodeTodoRow(rows[i])]

\* INSERT INTO todos (text, completed) values ($1, false) returning *
SqlInsertTodo(db, text) ==
    LET row == [id |-> db.serial + 1, text |-> text, completed |-> FALSE]
    IN [db |-> [rows |-> db.rows \cup {row}, serial |-> db.serial + 1],
        rows |-> <<row>>]

\* SELECT * FROM todos WHERE id = $1
SqlSelectTodo(db, id) == RowsAsc({r \in db.rows : r.id = id})

\* SELECT * FROM todos ORDER BY id DESC
SqlSelectTodosDesc(db) == RowsDesc(db.rows)

\* UPDATE todos SET text = $1, completed = $2 WHERE id = $3 returning *
SqlUpdateTodo(db, text, completed, id) ==
    LET hit == {r \in db.rows : r.id = id}
        new == {[id |-> r.id, text |-> text, completed |-> completed] : r \in hit}
    IN [db |-> [db EXCEPT !.rows = (db.rows \ hit) \cup new], rows |-> RowsAsc(new)]

\* DELETE FROM <table> WHERE id = $1, run with `.execute`: the statement
\* succeeds whatever the number of rows it removes
SqlDeleteById(db, id) ==
    LET hit == {r \in db.rows : r.id = id}
    IN [db |-> [db EXCEPT !.rows = db.rows \ hit],
        res |-> Ok([rows_affected |-> Cardinality(hit)])]

(***************************************************************************)
(* TodoRepositoryForDb.                                                    *)
(***************************************************************************)
TodoRepositoryForDb_create(db, payload) ==
    LET ins == SqlInsertTodo(db, payload.text)
        todo == fetch_one(DecodeTodoRows(ins.rows))
    IN IF todo.ok
       THEN [db |-> ins.db, res |-> OkFolded(fold_entity(todo.val))]
       ELSE [db |-> ins.db, res |-> Err(SqlxError(todo.err))]

TodoRepositoryForDb_find(db, id) ==
    LET todo == fetch_one(DecodeTodoRows(SqlSelectTodo(db, id)))
    IN IF todo.ok
       THEN OkFolded(fold_entity(todo.val))
       ELSE Err(MapSqlxError(todo.err, id))

TodoRepositoryForDb_all(db) ==
    OkFolded(fold_entities(DecodeTodoRows(SqlSelectTodosDesc(db))))

\* the UPDATE statement written as an upsert: a missing row is inserted
TodoRepositoryForDb_update_write_Upsert(db, id, payload, old_todo) ==
    LET text == unwrap_or(payload.text, old_todo.text)
        completed == unwrap_or(payload.completed, old_todo.completed)
        row == [id |-> id, text |-> text, completed |-> completed]
        kept == {r \in db.rows : r.id # id}
    IN [db |-> [db EXCEPT !.rows = kept \cup {row}],
        res |-> OkFolded(fold_entity(DecodeTodoRow(row)))]

\* the UPDATE statement of `update`, issued after `find` returned old_todo
TodoRepositoryForDb_update_write(db, id, payload, old_todo) ==
    LET upd == SqlUpdateTodo(db, unwrap_or(payload.text, old_todo.text),
                             unwrap_or(payload.completed, old_todo.completed), id)
        todo == fetch_one(DecodeTodoRows(upd.rows))
    IN IF todo.ok
       THEN [db |-> upd.db, res |-> OkFolded(fold_entity(todo.val))]
       ELSE [db |-> upd.db, res |-> Err(SqlxError(todo.err))]

TodoRepositoryForDb_delete(db, id) ==
    LET del == SqlDeleteById(db, id)
    IN IF del.res.ok
       THEN [db |-> del.db, res |-> Ok(Unit)]
       ELSE [db |-> del.db, res |-> Err(MapSqlxError(del.res.err, id))]

(***************************************************************************)
(* LabelRepositoryForDb.                                                   *)
(***************************************************************************)
\* SELECT * FROM labels WHERE name = $1: the rows, in an order the
\* statement does not fix
SqlSelectLabelByName(db, name) == {r \in db.rows : r.name = name}

\* INSERT INTO labels (name) values ($1) returning *
SqlInsertLabel(db, name) ==
    LET row == [id |-> db.serial + 1, name |-> name]
    IN [db |-> [rows |-> db.rows \cup {row}, serial |-> db.serial + 1],
        rows |-> <<row>>]

\* the INSERT of `create`, issued after the SELECT by name found no row
LabelRepositoryForDb_create_insert(db, name) ==
    LET ins == SqlInsertLabel(db, name)
        label == fetch_one(ins.rows)
    IN IF label.ok
       THEN [db |-> ins.db, res |-> Ok(Label(label.val.id, label.val.name))]
       ELSE [db |-> ins.db, res |-> Err(SqlxError(label.err))]

\* create whose SELECT by name reports no row
LabelRepositoryForDb_create_select_NoCheck(db, name) == {None}

\* the SELECT of `create`: `.fetch_optional` yields no row or one of the
\* rows found
LabelRepositoryForDb_create_select(db, name) ==
    LET found == SqlSelectLabelByName(db, name)
    IN IF found = {} THEN {None} ELSE {Some(r) : r \in found}

\* SELECT * FROM labels ORDER BY labels.id ASC
LabelRepositoryForDb_all(db) ==
    LET rows == RowsAsc(db.rows)
    IN Ok([i \in 1..Len(rows) |-> Label(rows[i].id, rows[i].name)])

LabelRepositoryForDb_delete(db, id) ==
    LET del == SqlDeleteById(db, id)
    IN IF del.res.ok
       THEN [db |-> del.db, res |-> Ok(Unit)]
       ELSE [db |-> del.db, res |-> Err(MapSqlxError(del.res.err, id))]

(***************************************************************************)
(* State.                                                                  *)
(*   repo        the repository the caller was constructed with            *)
(*   store       TodoRepositoryForMemory.store (HashMap<i32, TodoEntity>)  *)
(*   labelStore  LabelRepositoryForMemory.store (HashMap<i32, Label>)      *)
(*   todosDb     the `todos` table behind TodoRepositoryForDb              *)
(*   labelsDb    the `labels` table behind LabelRepositoryForDb            *)
(*   last        the call that returned last: its operation, arguments and *)
(*               result, and the storage as it was when the call was made  *)
(*   lockW       the client holding the RwLock write guard, 0 when none    *)
(*   lockR       the clients holding an RwLock read guard                  *)
(*   pc, local   per client task: its position and its local variables     *)
(*   calls       the calls of the client tasks that have returned          *)
(*   foldRows    the argument fold_entities is applied to                  *)
(*   foldOut     its outcome, once applied                                 *)
(***************************************************************************)
VARIABLES repo, store, labelStore, todosDb, labelsDb, last,
          lockW, lockR, pc, local, calls, foldRows, foldOut

vars == <<repo, store, labelStore, todosDb, labelsDb, last,
          lockW, lockR, pc, local, calls, foldRows, foldOut>>

storage == <<store, labelStore, todosDb, labelsDb>>
clientVars == <<lockW, lockR, pc, local, calls>>
foldVars == <<foldRows, foldOut>>

Clients == 1..NumClients
NoCall == [op |-> "none"]
NotApplied == [applied |-> FALSE]

\* the storage as the constructors leave it
StorageInit ==
    /\ store = EmptyMap
    /\ labelStore = EmptyMap
    /\ todosDb = EmptyTable
    /\ labelsDb = EmptyTable

ClientsIdle ==
    /\ lockW = 0
    /\ lockR = {}
    /\ pc = [c \in Clients |-> "idle"]
    /\ local = [c \in Clients |-> NoCall]
    /\ calls = <<>>

FoldIdle ==
    /\ foldRows = <<>>
    /\ foldOut = NotApplied

(***************************************************************************)
(* Spec: tasks call the operations of the repository they share.  An      *)
(* operation of an in-memory backend runs under the store's lock and is    *)
(* one step.  An operation of a durable backend is one step per SQL        *)
(* statement: TodoRepositoryForDb::update (find, then UPDATE) and          *)
(* LabelRepositoryForDb::create (SELECT, then INSERT) are two steps of a   *)
(* client task, with no transaction, and the statements of other tasks     *)
(* run in between.  `last` is the call that returned last: its arguments,  *)
(* its result, the storage before its last statement (`pre`) and, for a    *)
(* two-statement call, what its first statement read (`read`).             *)
(***************************************************************************)
Init ==
    /\ repo \in {"TodoMem", "TodoDb", "LabelMem", "LabelDb"}
    /\ StorageInit
    /\ last = NoCall
    /\ ClientsIdle
    /\ FoldIdle

TodoMemCreate(payload) ==
    /\ repo = "TodoMem"
    /\ HashMapLen(store) < MaxTodos
    /\ LET out == TodoRepositoryForMemory_create(store, payload)
       IN /\ store' = out.store
          /\ last' = [op |-> "create", payload |-> payload, res |-> out.res,
                      pre |-> store]
    /\ UNCHANGED <<repo, labelStore, todosDb, labelsDb, clientVars, foldVars>>

TodoMemFind(id) ==
    /\ repo = "TodoMem"
    /\ last' = [op |-> "find", id |-> id,
                res |-> TodoRepositoryForMemory_find(store, id), pre |-> store]
    /\ UNCHANGED <<repo, storage, clientVars, foldVars>>

TodoMemAll ==
    /\ repo = "TodoMem"
    /\ \E res \in TodoRepositoryForMemory_all(store) :
          last' = [op |-> "all", res |-> res, pre |-> store]
    /\ UNCHANGED <<repo, storage, clientVars, foldVars>>

TodoMemUpdate(id, payload) ==
    /\ repo = "TodoMem"
    /\ LET out == TodoRepositoryForMemory_update(store, id, payload)
       IN /\ store' = out.store
          /\ last' = [op |-> "update", id |-> id, payload |-> payload,
                      res |-> out.res, pre |-> store]
    /\ UNCHANGED <<repo, labelStore, todosDb, labelsDb, clientVars, foldVars>>

TodoMemDelete(id) ==
    /\ repo = "TodoMem"
    /\ LET out == TodoRepositoryForMemory_delete(store, id)
       IN /\ store' = out.store
          /\ last' = [op |-> "delete", id |-> id, res |-> out.res, pre |-> store]
    /\ UNCHANGED <<repo, labelStore, todosDb, labelsDb, clientVars, foldVars>>

TodoDbCreate(payload) ==
    /\ repo = "TodoDb"
    /\ todosDb.serial < MaxSerial
    /\ LET out == TodoRepositoryForDb_create(todosDb, payload)
       IN /\ todosDb' = out.db
          /\ last' = [op |-> "create", payload |-> payload, res |-> out.res,
                      pre |-> todosDb]
    /\ UNCHANGED <<repo, store, labelStore, labelsDb, clientVars, foldVars>>

TodoDbFind(id) ==
    /\ repo = "TodoDb"
    /\ last' = [op |-> "find", id |-> id,
                res |-> TodoRepositoryForDb_find(todosDb, id), pre |-> todosDb]
    /\ UNCHANGED <<repo, storage, clientVars, foldVars>>

TodoDbAll ==
    /\ repo = "TodoDb"
    /\ last' = [op |-> "all", res |-> TodoRepositoryForDb_all(todosDb),
                pre |-> todosDb]
    /\ UNCHANGED <<repo, storage, clientVars, foldVars>>

\* `let old_todo = self.find(id).await?;`: an Err ends the call
TodoDbUpdateFind(c, id, payload) ==
    /\ repo = "TodoDb"
    /\ pc[c] = "idle"
    /\ LET old_todo == TodoRepositoryForDb_find(todosDb, id)
       IN IF old_todo.ok
          THEN /\ pc' = [pc EXCEPT ![c] = "write"]
               /\ local' = [local EXCEPT ![c] =
                     [op |-> "update", id |-> id, payload |-> payload,
                      old_todo |-> old_todo.val]]
               /\ last' = last
          ELSE /\ last' = [op |-> "update", id |-> id, payload |-> payload,
                           res |-> old_todo, pre |-> todosDb, read |-> old_todo]
               /\ UNCHANGED <<pc, local>>
    /\ UNCHANGED <<repo, storage, lockW, lockR, calls, foldVars>>

\* the UPDATE ... returning * of `update`, and its return
TodoDbUpdateWrite(c) ==
    /\ repo = "TodoDb"
    /\ pc[c] = "write"
    /\ LET out == TodoRepositoryForDb_update_write(
                      todosDb, local[c].id, local[c].payload, local[c].old_todo)
       IN /\ todosDb' = out.db
          /\ last' = [op |-> "update", id |-> local[c].id,
                      payload |-> local[c].payload, res |-> out.res,
                      pre |-> todosDb, read |-> Ok(local[c].old_todo)]
    /\ pc' = [pc EXCEPT ![c] = "idle"]
    /\ local' = [local EXCEPT ![c] = NoCall]
    /\ UNCHANGED <<repo, store, labelStore, labelsDb, lockW, lockR, calls, foldVars>>

TodoDbDelete(id) ==
    /\ repo = "TodoDb"
    /\ LET out == TodoRepositoryForDb_delete(todosDb, id)
       IN /\ todosDb' = out.db
          /\ last' = [op |-> "delete", id |-> id, res |-> out.res, pre |-> todosDb]
    /\ UNCHANGED <<repo, store, labelStore, labelsDb, clientVars, foldVars>>

LabelMemCreate(name) ==
    /\ repo = "LabelMem"
    /\ HashMapLen(labelStore) < MaxTodos
    /\ LET out == LabelRepositoryForMemory_create(labelStore, name)
       IN /\ labelStore' = out.store
          /\ last' = [op |-> "create", name |-> name, res |-> out.res,
                      pre |-> labelStore]
    /\ UNCHANGED <<repo, store, todosDb, labelsDb, clientVars, foldVars>>

LabelMemAll ==
    /\ repo = "LabelMem"
    /\ \E res \in LabelRepositoryForMemory_all(labelStore) :
          last' = [op |-> "all", res |-> res, pre |-> labelStore]
    /\ UNCHANGED <<repo, storage, clientVars, foldVars>>

LabelMemDelete(id) ==
    /\ repo = "LabelMem"
    /\ LET out == LabelRepositoryForMemory_delete(labelStore, id)
       IN /\ labelStore' = out.store
          /\ last' = [op |-> "delete", id |-> id, res |-> out.res,
                      pre |-> labelStore]
    /\ UNCHANGED <<repo, store, todosDb, labelsDb, clientVars, foldVars>>

\* inserts that calls in progress are about to make
InsertsPending == Cardinality({c \in Clients : pc[c] = "insert"})

\* the SELECT by name of `create`: a row found ends the call with Duplicate
LabelDbCreateSelect(c, name) ==
    /\ repo = "LabelDb"
    /\ pc[c] = "idle"
    /\ \/ labelsDb.serial + InsertsPending < MaxSerial
       \/ SqlSelectLabelByName(labelsDb, name) # {}
    /\ \E optional_label \in LabelRepositoryForDb_create_select(labelsDb, name) :
          IF is_some(optional_label)
          THEN /\ last' = [op |-> "create", name |-> name,
                           res |-> Err(Duplicate(optional_label[1].id)),
                           pre |-> labelsDb, read |-> optional_label]
               /\ UNCHANGED <<pc, local>>
          ELSE /\ pc' = [pc EXCEPT ![c] = "insert"]
               /\ local' = [local EXCEPT ![c] = [op |-> "create", name |-> name]]
               /\ last' = last
    /\ UNCHANGED <<repo, storage, lockW, lockR, calls, foldVars>>

\* the INSERT of `create`, and its return
LabelDbCreateInsert(c) ==
    /\ repo = "LabelDb"
    /\ pc[c] = "insert"
    /\ LET out == LabelRepositoryForDb_create_insert(labelsDb, local[c].name)
       IN /\ labelsDb' = out.db
          /\ last' = [op |-> "create", name |-> local[c].name, res |-> out.res,
                      pre |-> labelsDb, read |-> None]
    /\ pc' = [pc EXCEPT ![c] = "idle"]
    /\ local' = [local EXCEPT ![c] = NoCall]
    /\ UNCHANGED <<repo, store, labelStore, todosDb, lockW, lockR, calls, foldVars>>

LabelDbAll ==
    /\ repo = "LabelDb"
    /\ last' = [op |-> "all", res |-> LabelRepositoryForDb_all(labelsDb),
                pre |-> labelsDb]
    /\ UNCHANGED <<repo, storage, clientVars, foldVars>>

LabelDbDelete(id) ==
    /\ repo = "LabelDb"
    /\ LET out == LabelRepositoryForDb_delete(labelsDb, id)
       IN /\ labelsDb' = out.db
          /\ last' = [op |-> "delete", id |-> id, res |-> out.res, pre |-> labelsDb]
    /\ UNCHANGED <<repo, store, labelStore, todosDb, clientVars, foldVars>>

Next ==
    \/ \E payload \in CreateTodo : TodoMemCreate(payload)
    \/ \E id \in MemIds : TodoMemFind(id)
    \/ TodoMemAll
    \/ \E id \in MemIds, payload \in UpdateTodo : TodoMemUpdate(id, payload)
    \/ \E id \in MemIds : TodoMemDelete(id)
    \/ \E payload \in CreateTodo : TodoDbCreate(payload)
    \/ \E id \in DbIds : TodoDbFind(id)
    \/ TodoDbAll
    \/ \E c \in Clients, id \in DbIds, payload \in RacingUpdates :
          TodoDbUpdateFind(c, id, payload)
    \/ \E c \in Clients : TodoDbUpdateWrite(c)
    \/ \E id \in DbIds : TodoDbDelete(id)
    \/ \E name \in Names : LabelMemCreate(name)
    \/ LabelMemAll
    \/ \E id \in MemIds : LabelMemDelete(id)
    \/ \E c \in Clients, name \in Names : LabelDbCreateSelect(c, name)
    \/ \E c \in Clients : LabelDbCreateInsert(c)
    \/ LabelDbAll
    \/ \E id \in DbIds : LabelDbDelete(id)

Spec == Init /\ [][Next]_vars

(***************************************************************************)
(* SpecMem: the in-memory backends alone, every operation one step under   *)
(* the lock of the store.                                                  *)
(***************************************************************************)
InitMem ==
    /\ repo \in {"TodoMem", "LabelMem"}
    /\ StorageInit
    /\ last = NoCall
    /\ ClientsIdle
    /\ FoldIdle

NextMem ==
    \/ \E payload \in CreateTodo : TodoMemCreate(payload)
    \/ \E id \in MemIds : TodoMemFind(id)
    \/ TodoMemAll
    \/ \E id \in MemIds, payload \in UpdateTodo : TodoMemUpdate(id, payload)
    \/ \E id \in MemIds : TodoMemDelete(id)
    \/ \E name \in Names : LabelMemCreate(name)
    \/ LabelMemAll
    \/ \E id \in MemIds : LabelMemDelete(id)

SpecMem == InitMem /\ [][NextMem]_vars

(***************************************************************************)
(* SpecLabelDb: the durable label backend alone, tasks interleaving at     *)
(* every statement.                                                        *)
(***************************************************************************)
InitLabelDb ==
    /\ repo = "LabelDb"
    /\ StorageInit
    /\ last = NoCall
    /\ ClientsIdle
    /\ FoldIdle

NextLabelDb ==
    \/ \E c \in Clients, name \in Names : LabelDbCreateSelect(c, name)
    \/ \E c \in Clients : LabelDbCreateInsert(c)
    \/ LabelDbAll
    \/ \E id \in DbIds : LabelDbDelete(id)

SpecLabelDb == InitLabelDb /\ [][NextLabelDb]_vars

(***************************************************************************)
(* Reading the storage of the todo repository in use, for the properties.  *)
(***************************************************************************)
TodoRepo == repo \in {"TodoMem", "TodoDb"}
CurrentTodos == IF repo = "TodoMem" THEN store ELSE todosDb
TodoKeys(st) == IF repo = "TodoMem" THEN DOMAIN st ELSE {r.id : r \in st.rows}
TodoFields(st, id) ==
    IF repo = "TodoMem"
    THEN [id |-> st[id].id, text |-> st[id].text, completed |-> st[id].completed]
    ELSE CHOOSE r \in st.rows : r.id = id
FindNow(id) ==
    IF repo = "TodoMem"
    THEN TodoRepositoryForMemory_find(store, id)
    ELSE TodoRepositoryForDb_find(todosDb, id)
AllNow ==
    IF repo = "TodoMem"
    THEN TodoRepositoryForMemory_all(store)
    ELSE {TodoRepositoryForDb_all(todosDb)}

(***************************************************************************)
(* C2: in every reachable state of the in-memory todo store each key k     *)
(* maps to an entity whose id is k, so no two stored todos share an id.    *)
(***************************************************************************)
C2_KeysAreIds ==
    /\ \A k \in DOMAIN store : store[k].id = k
    /\ \A j, k \in DOMAIN store : j # k => store[j].id # store[k].id

\* an update has succeeded on a store that holds two todos
C2_Witness ==
    /\ repo = "TodoMem"
    /\ last.op = "update"
    /\ last.res.ok
    /\ HashMapLen(store) = 2

(***************************************************************************)
(* C3: when create(payload) returns entity e, e carries the payload's      *)
(* text, completed = false and no labels, and a find(e.id) issued next     *)
(* returns an entity equal to e.                                           *)
(***************************************************************************)
C3_CreateThenFind ==
    (TodoRepo /\ last.op = "create" /\ last.res.ok) =>
        LET e == last.res.val
        IN /\ e.text = last.payload.text
           /\ e.completed = FALSE
           /\ e.labels = <<>>
           /\ FindNow(e.id) = Ok(e)

\* a create has returned on a store that already held a todo
C3_Witness ==
    /\ TodoRepo
    /\ last.op = "create"
    /\ last.res.ok
    /\ TodoKeys(last.pre) # {}

(***************************************************************************)
(* C4: update(t.id, payload) on a stored todo t, run without concurrent    *)
(* operations, returns and stores an entity with t's id, the payload's     *)
(* text when present and t's otherwise, the payload's completed when       *)
(* present and t's otherwise.                                              *)
(***************************************************************************)
\* the last call ran as if alone: the first statement of a two-statement
\* call of a durable backend (the find of update, the SELECT of label
\* create), run again just before its second statement, reads what it read.
\* An operation of an in-memory backend holds the lock of the store
\* throughout.
RanAlone ==
    CASE repo = "TodoDb" -> last.read = TodoRepositoryForDb_find(last.pre, last.id)
      [] repo = "LabelDb" ->
             last.read \in LabelRepositoryForDb_create_select(last.pre, last.name)
      [] OTHER -> TRUE

C4_UpdateMerges ==
    (TodoRepo /\ last.op = "update" /\ RanAlone /\ last.id \in TodoKeys(last.pre)) =>
        LET t == TodoFields(last.pre, last.id)
            text == IF last.payload.text = None THEN t.text ELSE last.payload.text[1]
            completed == IF last.payload.completed = None
                         THEN t.completed ELSE last.payload.completed[1]
            want == [id |-> t.id, text |-> text, completed |-> completed]
        IN /\ last.res.ok
           /\ last.res.val.id = want.id
           /\ last.res.val.text = want.text
           /\ last.res.val.completed = want.completed
           /\ last.id \in TodoKeys(CurrentTodos)
           /\ TodoFields(CurrentTodos, last.id) = want

\* an update carrying only a text has run on a completed todo
C4_Witness ==
    /\ repo = "TodoDb"
    /\ last.op = "update"
    /\ RanAlone
    /\ last.id \in TodoKeys(last.pre)
    /\ last.payload.text # None
    /\ last.payload.completed = None
    /\ TodoFields(last.pre, last.id).completed
    /\ TodoFields(last.pre, last.id).text # last.payload.text[1]

(***************************************************************************)
(* C5: on the in-memory todo backend find, update and delete called with   *)
(* an id that is no key of the store return NotFound(id) and leave the     *)
(* store as it was.                                                        *)
(***************************************************************************)
C5_AbsentIdIsNotFound ==
    (/\ repo = "TodoMem"
     /\ last.op \in {"find", "update", "delete"}
     /\ last.id \notin DOMAIN last.pre) =>
        /\ last.res = Err(NotFound(last.id))
        /\ store = last.pre

\* an update was called with an absent id on a store that holds a todo
C5_Witness ==
    /\ repo = "TodoMem"
    /\ last.op = "update"
    /\ last.id \notin DOMAIN last.pre
    /\ last.pre # EmptyMap

(***************************************************************************)
(* C6: after delete(id) returned success, a find(id) issued next fails     *)
(* with NotFound(id) and all() holds no entity with that id.               *)
(***************************************************************************)
C6_DeleteThenFind ==
    (TodoRepo /\ last.op = "delete" /\ last.res.ok) =>
        /\ FindNow(last.id) = Err(NotFound(last.id))
        /\ \A res \in AllNow :
              /\ res.ok
              /\ \A i \in 1..Len(res.val) : res.val[i].id # last.id

\* a delete removed one of two stored todos
C6_Witness ==
    /\ TodoRepo
    /\ last.op = "delete"
    /\ last.res.ok
    /\ last.id \in TodoKeys(last.pre)
    /\ TodoKeys(CurrentTodos) # {}

(***************************************************************************)
(* C7: on the durable backends delete(id) called when no row has that id   *)
(* returns NotFound(id), not success.                                      *)
(***************************************************************************)
C7_DurableDeleteAbsent ==
    (/\ repo \in {"TodoDb", "LabelDb"}
     /\ last.op = "delete"
     /\ \A r \in last.pre.rows : r.id # last.id) =>
        last.res = Err(NotFound(last.id))

(***************************************************************************)
(* C8: on the durable label backend, without concurrent operations,        *)
(* create(name) returns Duplicate(id of the stored label) and leaves the   *)
(* rows unchanged when a label with that name is stored; otherwise it      *)
(* inserts exactly one row and returns it, carrying that name.             *)
(***************************************************************************)
C8_LabelCreate ==
    (repo = "LabelDb" /\ last.op = "create" /\ RanAlone) =>
        LET found == {r \in last.pre.rows : r.name = last.name}
        IN IF found # {}
           THEN /\ \E r \in found : last.res = Err(Duplicate(r.id))
                /\ labelsDb.rows = last.pre.rows
           ELSE /\ last.res.ok
                /\ last.res.val.name = last.name
                /\ [id |-> last.res.val.id, name |-> last.name] \notin last.pre.rows
                /\ labelsDb.rows = last.pre.rows
                      \cup {[id |-> last.res.val.id, name |-> last.name]}
                /\ Cardinality(labelsDb.rows) = Cardinality(last.pre.rows) + 1

\* a create was refused as a duplicate while another label was stored too
C8_Witness ==
    /\ repo = "LabelDb"
    /\ last.op = "create"
    /\ RanAlone
    /\ ~last.res.ok
    /\ last.res.err.kind = "Duplicate"
    /\ Cardinality(labelsDb.rows) = 2

(***************************************************************************)
(* SpecCreate: client tasks call `create` on one shared in-memory store    *)
(* (fresh from `new()`) concurrently.  A call is the steps of its body:    *)
(* take the write guard, compute the id and build the entity, insert it,   *)
(* return (dropping the guard).                                            *)
(***************************************************************************)
\* the mutant of the lock: a write guard is handed out whoever holds one
RwLockCanWrite_NoExclusion(w, r) == TRUE

\* `self.store.write()`: granted when no guard is held
RwLockCanWrite(w, r) == w = 0 /\ r = {}

InitCreate ==
    /\ repo \in {"TodoMem", "LabelMem"}
    /\ StorageInit
    /\ last = NoCall
    /\ ClientsIdle
    /\ FoldIdle

CallsStarted == Len(calls) + Cardinality({c \in Clients : pc[c] # "idle"})
MemStore == IF repo = "TodoMem" THEN store ELSE labelStore

\* the caller invokes TodoRepositoryForMemory::create(payload)
TodoCreateCall(c, payload) ==
    /\ repo = "TodoMem"
    /\ pc[c] = "idle"
    /\ CallsStarted < MaxCalls
    /\ pc' = [pc EXCEPT ![c] = "lock"]
    /\ local' = [local EXCEPT ![c] = [op |-> "create", payload |-> payload]]
    /\ UNCHANGED <<repo, storage, last, lockW, lockR, calls, foldVars>>

\* the caller invokes LabelRepositoryForMemory::create(name)
LabelCreateCall(c, name) ==
    /\ repo = "LabelMem"
    /\ pc[c] = "idle"
    /\ CallsStarted < MaxCalls
    /\ pc' = [pc EXCEPT ![c] = "lock"]
    /\ local' = [local EXCEPT ![c] = [op |-> "create", name |-> name]]
    /\ UNCHANGED <<repo, storage, last, lockW, lockR, calls, foldVars>>

\* `let mut store = self.write_store_ref();`
CreateLock(c) ==
    /\ pc[c] = "lock"
    /\ RwLockCanWrite(lockW, lockR)
    /\ lockW' = c
    /\ pc' = [pc EXCEPT ![c] = "len"]
    /\ UNCHANGED <<repo, storage, last, lockR, local, calls, foldVars>>

\* `let id = (store.len() + 1) as i32;` and the entity built from it
CreateLen(c) ==
    /\ pc[c] = "len"
    /\ LET id == NextMemId(MemStore)
           entity == IF repo = "TodoMem"
                     THEN TodoEntity_new(id, local[c].payload.text)
                     ELSE Label_new(id, local[c].name)
       IN local' = [local EXCEPT ![c] =
                       [op |-> "create", id |-> id, entity |-> entity]]
    /\ pc' = [pc EXCEPT ![c] = "insert"]
    /\ UNCHANGED <<repo, storage, last, lockW, lockR, calls, foldVars>>

\* `store.insert(id, todo.clone());`
CreateInsert(c) ==
    /\ pc[c] = "insert"
    /\ IF repo = "TodoMem"
       THEN /\ store' = HashMapInsert(store, local[c].id, local[c].entity)
            /\ UNCHANGED labelStore
       ELSE /\ labelStore' = HashMapInsert(labelStore, local[c].id, local[c].entity)
            /\ UNCHANGED store
    /\ pc' = [pc EXCEPT ![c] = "return"]
    /\ UNCHANGED <<repo, todosDb, labelsDb, last, lockW, lockR, local, calls, foldVars>>

\* `Ok(todo)`: the call returns and its write guard is dropped
CreateReturn(c) ==
    /\ pc[c] = "return"
    /\ lockW' = IF lockW = c THEN 0 ELSE lockW
    /\ calls' = Append(calls, [client |-> c, op |-> "create",
                               res |-> Ok(local[c].entity)])
    /\ pc' = [pc EXCEPT ![c] = "idle"]
    /\ local' = [local EXCEPT ![c] = NoCall]
    /\ UNCHANGED <<repo, storage, last, lockR, foldVars>>

NextCreate ==
    \/ \E c \in Clients, payload \in CreateTodo : TodoCreateCall(c, payload)
    \/ \E c \in Clients, name \in Names : LabelCreateCall(c, name)
    \/ \E c \in Clients : CreateLock(c)
    \/ \E c \in Clients : CreateLen(c)
    \/ \E c \in Clients : CreateInsert(c)
    \/ \E c \in Clients : CreateReturn(c)

SpecCreate == InitCreate /\ [][NextCreate]_vars

(***************************************************************************)
(* C1: for create calls issued concurrently against one shared in-memory   *)
(* store, in every interleaving, no two calls return the same id, and once *)
(* all of them have returned the store holds one entity per call.          *)
(***************************************************************************)
C1_ConcurrentCreate ==
    /\ \A i, j \in 1..Len(calls) :
          i # j => calls[i].res.val.id # calls[j].res.val.id
    /\ (\A c \in Clients : pc[c] = "idle") => HashMapLen(MemStore) = Len(calls)

\* two calls issued by different clients have returned, none is in progress
C1_Witness ==
    /\ \A c \in Clients : pc[c] = "idle"
    /\ Len(calls) = 2
    /\ calls[1].client # calls[2].client
    /\ HashMapLen(MemStore) = 2

(***************************************************************************)
(* SpecFold: fold_entities applied to a row sequence.                      *)
(***************************************************************************)
FoldIds == {1, 2}
\* the todo columns of a row
TodoColumns == {<<"a", FALSE>>, <<"b", TRUE>>, <<"a", TRUE>>}
\* the label columns of a row, read from one joined label or from none:
\* the null pair, or the id and name of a label
LabelColumns == {<<None, None>>, <<Some(1), Some("x")>>, <<Some(2), Some("y")>>}
JoinRows ==
    {TodoWithLabelFromRow(id, t[1], t[2], l[1], l[2]) :
        id \in FoldIds, t \in TodoColumns, l \in LabelColumns}
BoundedSeq(S, n) == UNION {[1..k -> S] : k \in 0..n}

InitFold ==
    /\ repo = "none"
    /\ StorageInit
    /\ last = NoCall
    /\ ClientsIdle
    /\ foldRows \in BoundedSeq(JoinRows, MaxRows)
    /\ foldOut = NotApplied

ApplyFoldEntities ==
    /\ foldOut = NotApplied
    /\ foldOut' = [applied |-> TRUE, out |-> fold_entities(foldRows)]
    /\ UNCHANGED <<repo, storage, last, clientVars, foldRows>>

NextFold == ApplyFoldEntities

SpecFold == InitFold /\ [][NextFold]_vars

\* the rows of todo id, and the first of them
RowsOf(rows, id) == {i \in 1..Len(rows) : rows[i].id = id}
FirstRowOf(rows, id) == CHOOSE i \in RowsOf(rows, id) : \A k \in RowsOf(rows, id) : i <= k
NullPair(row) == row.label_id = None /\ row.label_name = None
FullPair(row) == row.label_id # None /\ row.label_name # None

(***************************************************************************)
(* C9: for all row sequences R, fold_entities(R) returns one entity per    *)
(* distinct todo id of R, in the order in which the ids first appear in R, *)
(* each with the text and completed of the first row that has its id.      *)
(***************************************************************************)
C9_FoldFirstSeen ==
    foldOut.applied =>
        /\ ~foldOut.out.panic
        /\ LET out == foldOut.out.val
           IN /\ {out[j].id : j \in 1..Len(out)} = {foldRows[i].id : i \in 1..Len(foldRows)}
              /\ \A j, k \in 1..Len(out) :
                    j < k => FirstRowOf(foldRows, out[j].id) < FirstRowOf(foldRows, out[k].id)
              /\ \A j \in 1..Len(out) :
                    LET first == foldRows[FirstRowOf(foldRows, out[j].id)]
                    IN out[j].text = first.text /\ out[j].completed = first.completed

(***************************************************************************)
(* C10: for every row sequence of the join-row shape (a todo has only rows *)
(* with a non-null label pair, or exactly one row, with a null pair) each  *)
(* entity of fold_entities(R) lists exactly the label pairs of the rows    *)
(* with its id, in row order, one label per row, duplicates kept.          *)
(***************************************************************************)
JoinShape(rows) ==
    \A id \in {rows[i].id : i \in 1..Len(rows)} :
        \/ \A i \in RowsOf(rows, id) : FullPair(rows[i])
        \/ Cardinality(RowsOf(rows, id)) = 1 /\ NullPair(rows[FirstRowOf(rows, id)])

RECURSIVE LabelsOfRows(_, _)
LabelsOfRows(rows, id) ==
    IF rows = <<>> THEN <<>>
    ELSE LET row == Head(rows)
         IN (IF row.id = id /\ FullPair(row)
             THEN <<[id |-> row.label_id[1], name |-> row.label_name[1]]>>
             ELSE <<>>) \o LabelsOfRows(Tail(rows), id)

C10_FoldLabels ==
    (foldOut.applied /\ JoinShape(foldRows)) =>
        /\ ~foldOut.out.panic
        /\ \A j \in 1..Len(foldOut.out.val) :
              foldOut.out.val[j].labels = LabelsOfRows(foldRows, foldOut.out.val[j].id)

\* two rows of one todo carry the same label and a row of another todo
\* carries that label too
C10_Witness ==
    /\ foldOut.applied
    /\ JoinShape(foldRows)
    /\ Len(foldRows) = 3
    /\ foldRows[1].id = foldRows[2].id
    /\ foldRows[1].label_id = foldRows[2].label_id
    /\ foldRows[3].id # foldRows[1].id
    /\ foldRows[3].label_id = foldRows[1].label_id
    /\ Len(foldOut.out.val) = 2
    /\ Len(foldOut.out.val[1].labels) = 2

(***************************************************************************)
(* Reading the storage of the label repository in use.                     *)
(***************************************************************************)
LabelRepo == repo \in {"LabelMem", "LabelDb"}
MemRepo == repo \in {"TodoMem", "LabelMem"}
StoredLabels ==
    IF repo = "LabelMem"
    THEN {labelStore[k] : k \in DOMAIN labelStore}
    ELSE {Label(r.id, r.name) : r \in labelsDb.rows}

(***************************************************************************)
(* C11: on each LabelRepository backend all() returns every stored label   *)
(* exactly once, in ascending id order.                                    *)
(***************************************************************************)
C11_LabelAllAscending ==
    (LabelRepo /\ last.op = "all") =>
        /\ last.res.ok
        /\ {last.res.val[i] : i \in 1..Len(last.res.val)} = StoredLabels
        /\ Len(last.res.val) = Cardinality(StoredLabels)
        /\ \A i, j \in 1..Len(last.res.val) :
              i < j => last.res.val[i].id < last.res.val[j].id

(***************************************************************************)
(* C12: on the in-memory backends create never overwrites a stored entity: *)
(* the id it assigns is no key of the store, the store grows by exactly    *)
(* one, and every entity stored before the call is stored unchanged after. *)
(***************************************************************************)
C12_CreateNeverOverwrites ==
    (MemRepo /\ last.op = "create") =>
        /\ last.res.ok
        /\ last.res.val.id \notin DOMAIN last.pre
        /\ HashMapLen(MemStore) = HashMapLen(last.pre) + 1
        /\ \A k \in DOMAIN last.pre : k \in DOMAIN MemStore /\ MemStore[k] = last.pre[k]

(***************************************************************************)
(* C20: every entity the in-memory todo store holds has an empty label     *)
(* list, and so has every entity create, find, update and all return.      *)
(***************************************************************************)
C20_MemoryNeverLabels ==
    repo = "TodoMem" =>
        /\ \A k \in DOMAIN store : store[k].labels = <<>>
        /\ (last.op \in {"create", "find", "update"} /\ last.res.ok) =>
              last.res.val.labels = <<>>
        /\ last.op = "all" =>
              \A i \in 1..Len(last.res.val) : last.res.val[i].labels = <<>>

\* all() has returned two todos after an update of one of them
C20_Witness ==
    /\ repo = "TodoMem"
    /\ last.op = "all"
    /\ Len(last.res.val) = 2
    /\ \E i \in 1..2 : last.res.val[i].completed

(***************************************************************************)
(* SpecIds: one caller issues create and delete on an in-memory store;     *)
(* `calls` keeps what every create returned.                               *)
(***************************************************************************)
InitIds == InitCreate

IssueTodoCreate(payload) ==
    /\ repo = "TodoMem"
    /\ Len(calls) < MaxCalls
    /\ LET out == TodoRepositoryForMemory_create(store, payload)
       IN /\ store' = out.store
          /\ calls' = Append(calls, out.res)
          /\ last' = [op |-> "create", payload |-> payload, res |-> out.res,
                      pre |-> store]
    /\ UNCHANGED <<repo, labelStore, todosDb, labelsDb, lockW, lockR, pc, local,
                   foldVars>>

IssueLabelCreate(name) ==
    /\ repo = "LabelMem"
    /\ Len(calls) < MaxCalls
    /\ LET out == LabelRepositoryForMemory_create(labelStore, name)
       IN /\ labelStore' = out.store
          /\ calls' = Append(calls, out.res)
          /\ last' = [op |-> "create", name |-> name, res |-> out.res,
                      pre |-> labelStore]
    /\ UNCHANGED <<repo, store, todosDb, labelsDb, lockW, lockR, pc, local,
                   foldVars>>

IssueTodoDelete(id) ==
    /\ repo = "TodoMem"
    /\ LET out == TodoRepositoryForMemory_delete(store, id)
       IN /\ store' = out.store
          /\ last' = [op |-> "delete", id |-> id, res |-> out.res, pre |-> store]
    /\ UNCHANGED <<repo, labelStore, todosDb, labelsDb, clientVars, foldVars>>

IssueLabelDelete(id) ==
    /\ repo = "LabelMem"
    /\ LET out == LabelRepositoryForMemory_delete(labelStore, id)
       IN /\ labelStore' = out.store
          /\ last' = [op |-> "delete", id |-> id, res |-> out.res,
                      pre |-> labelStore]
    /\ UNCHANGED <<repo, store, todosDb, labelsDb, clientVars, foldVars>>

NextIds ==
    \/ \E payload \in CreateTodo : IssueTodoCreate(payload)
    \/ \E name \in Names : IssueLabelCreate(name)
    \/ \E id \in MemIds : IssueTodoDelete(id)
    \/ \E id \in MemIds : IssueLabelDelete(id)

SpecIds == InitIds /\ [][NextIds]_vars

(***************************************************************************)
(* C13: the in-memory backend assigns a new id as the store's size + 1,    *)
(* and over any sequence of create and delete calls create never returns   *)
(* an id that an earlier create on the same store returned.                *)
(***************************************************************************)
C13_IdsNeverReused ==
    /\ last.op = "create" => last.res.val.id = HashMapLen(last.pre) + 1
    /\ \A i, j \in 1..Len(calls) : i # j => calls[i].val.id # calls[j].val.id

(***************************************************************************)
(* SpecDb: tasks call the durable backends concurrently.  No operation     *)
(* runs in a transaction: each SQL statement is one step.  A client task   *)
(* issues one two-statement call (TodoRepositoryForDb::update, or          *)
(* LabelRepositoryForDb::create) and keeps its outcome in `local`; the     *)
(* single-statement calls of other tasks (create and delete of todos,      *)
(* delete of labels) happen in between.                                    *)
(***************************************************************************)
InitDb ==
    /\ repo \in {"TodoDb", "LabelDb"}
    /\ StorageInit
    /\ last = NoCall
    /\ ClientsIdle
    /\ FoldIdle

HasRow(db, id) == \E r \in db.rows : r.id = id

\* TodoRepositoryForDb::create, one INSERT
DbTodoCreate(payload) ==
    /\ repo = "TodoDb"
    /\ todosDb.serial < MaxSerial
    /\ todosDb' = TodoRepositoryForDb_create(todosDb, payload).db
    /\ UNCHANGED <<repo, store, labelStore, labelsDb, last, clientVars, foldVars>>

\* TodoRepositoryForDb::delete, one DELETE
DbTodoDelete(id) ==
    /\ repo = "TodoDb"
    /\ HasRow(todosDb, id)
    /\ todosDb' = TodoRepositoryForDb_delete(todosDb, id).db
    /\ UNCHANGED <<repo, store, labelStore, labelsDb, last, clientVars, foldVars>>

\* `let old_todo = self.find(id).await?;`
DbUpdateFind(c, id, payload) ==
    /\ repo = "TodoDb"
    /\ pc[c] = "idle"
    /\ LET old_todo == TodoRepositoryForDb_find(todosDb, id)
       IN IF old_todo.ok
          THEN /\ pc' = [pc EXCEPT ![c] = "write"]
               /\ local' = [local EXCEPT ![c] =
                     [op |-> "update", id |-> id, payload |-> payload,
                      old_todo |-> old_todo.val]]
          ELSE /\ pc' = [pc EXCEPT ![c] = "done"]
               /\ local' = [local EXCEPT ![c] =
                     [op |-> "update", id |-> id, payload |-> payload,
                      res |-> old_todo, gone |-> FALSE]]
    /\ UNCHANGED <<repo, storage, last, lockW, lockR, calls, foldVars>>

\* the UPDATE ... returning * of `update`, and its return; `gone` notes
\* that the row had been deleted since the find
DbUpdateWrite(c) ==
    /\ pc[c] = "write"
    /\ LET out == TodoRepositoryForDb_update_write(
                      todosDb, local[c].id, local[c].payload, local[c].old_todo)
       IN /\ todosDb' = out.db
          /\ local' = [local EXCEPT ![c] =
                [op |-> "update", id |-> local[c].id, payload |-> local[c].payload,
                 res |-> out.res, gone |-> ~HasRow(todosDb, local[c].id)]]
    /\ pc' = [pc EXCEPT ![c] = "done"]
    /\ UNCHANGED <<repo, store, labelStore, labelsDb, last, lockW, lockR, calls,
                   foldVars>>

\* the SELECT by name of LabelRepositoryForDb::create; a row found ends the
\* call with Duplicate
DbLabelSelect(c, name) ==
    /\ repo = "LabelDb"
    /\ pc[c] = "idle"
    /\ labelsDb.serial + Cardinality({d \in Clients : pc[d] = "insert"}) < MaxSerial
    /\ LET found == SqlSelectLabelByName(labelsDb, name)
       IN IF found # {}
          THEN /\ pc' = [pc EXCEPT ![c] = "done"]
               /\ \E label \in found :
                     local' = [local EXCEPT ![c] =
                        [op |-> "create", name |-> name,
                         res |-> Err(Duplicate(label.id))]]
          ELSE /\ pc' = [pc EXCEPT ![c] = "insert"]
               /\ local' = [local EXCEPT ![c] = [op |-> "create", name |-> name]]
    /\ UNCHANGED <<repo, storage, last, lockW, lockR, calls, foldVars>>

\* the INSERT of LabelRepositoryForDb::create, and its return
DbLabelInsert(c) ==
    /\ pc[c] = "insert"
    /\ LET out == LabelRepositoryForDb_create_insert(labelsDb, local[c].name)
       IN /\ labelsDb' = out.db
          /\ local' = [local EXCEPT ![c] =
                [op |-> "create", name |-> local[c].name, res |-> out.res]]
    /\ pc' = [pc EXCEPT ![c] = "done"]
    /\ UNCHANGED <<repo, store, labelStore, todosDb, last, lockW, lockR, calls,
                   foldVars>>

\* LabelRepositoryForDb::delete, one DELETE
DbLabelDelete(id) ==
    /\ repo = "LabelDb"
    /\ HasRow(labelsDb, id)
    /\ labelsDb' = LabelRepositoryForDb_delete(labelsDb, id).db
    /\ UNCHANGED <<repo, store, labelStore, todosDb, last, clientVars, foldVars>>

NextDb ==
    \/ \E payload \in CreateTodo : DbTodoCreate(payload)
    \/ \E id \in DbIds : DbTodoDelete(id)
    \/ \E c \in Clients, id \in DbIds, payload \in RacingUpdates : DbUpdateFind(c, id, payload)
    \/ \E c \in Clients : DbUpdateWrite(c)
    \/ \E c \in Clients, name \in Names : DbLabelSelect(c, name)
    \/ \E c \in Clients : DbLabelInsert(c)
    \/ \E id \in DbIds : DbLabelDelete(id)

SpecDb == InitDb /\ [][NextDb]_vars

(***************************************************************************)
(* C14: when a concurrent delete(id) removes the row between the find and  *)
(* the UPDATE of the durable update(id, payload), update returns an error  *)
(* that is not NotFound(id), and the deleted row is neither modified nor   *)
(* re-created.                                                             *)
(***************************************************************************)
C14_UpdateRacesDelete ==
    \A c \in Clients :
        (pc[c] = "done" /\ local[c].op = "update" /\ local[c].gone) =>
            /\ ~local[c].res.ok
            /\ local[c].res.err # NotFound(local[c].id)
            /\ ~HasRow(todosDb, local[c].id)

\* an update lost its row to a delete while another todo stayed stored
C14_Witness ==
    \E c \in Clients :
        /\ pc[c] = "done"
        /\ local[c].op = "update"
        /\ local[c].gone
        /\ todosDb.rows # {}

(***************************************************************************)
(* C15: in every state of the durable label store reachable by concurrent  *)
(* create and delete calls, no two label rows have the same name.          *)
(***************************************************************************)
C15_LabelNamesUnique ==
    \A r, q \in labelsDb.rows : r # q => r.name # q.name

(***************************************************************************)
(* C16: two concurrent updates of one stored todo, one carrying only a     *)
(* text and the other only completed, leave the todo with the new text and *)
(* the new completed value in every interleaving.                          *)
(***************************************************************************)
C16_UpdatesBothKept ==
    \A c, d \in Clients :
        (/\ c # d
         /\ \A e \in Clients \ {c, d} : pc[e] = "idle"
         /\ pc[c] = "done" /\ local[c].op = "update" /\ local[c].res.ok
         /\ pc[d] = "done" /\ local[d].op = "update" /\ local[d].res.ok
         /\ local[c].id = local[d].id
         /\ local[c].payload.text # None /\ local[c].payload.completed = None
         /\ local[d].payload.text = None /\ local[d].payload.completed # None
         /\ HasRow(todosDb, local[c].id)) =>
            LET row == CHOOSE r \in todosDb.rows : r.id = local[c].id
            IN /\ row.text = local[c].payload.text[1]
               /\ row.completed = local[d].payload.completed[1]

(***************************************************************************)
(* C17: for any row sequence, when fold_entities meets a row whose todo id *)
(* is already in the accumulator and whose label pair is null, it appends  *)
(* no label and goes on to the next row, without failing or panicking; a   *)
(* label is appended to an existing entity only for a non-null pair.       *)
(***************************************************************************)
RepeatedNullRow(rows) ==
    \E i \in 1..Len(rows) :
        /\ NullPair(rows[i])
        /\ \E k \in 1..(i - 1) : rows[k].id = rows[i].id

C17_RepeatedIdNullPair ==
    (foldOut.applied /\ RepeatedNullRow(foldRows)) =>
        /\ ~foldOut.out.panic
        /\ \A j \in 1..Len(foldOut.out.val) :
              Len(foldOut.out.val[j].labels)
                  = Len(LabelsOfRows(foldRows, foldOut.out.val[j].id))

(***************************************************************************)
(* SpecFoldOne: fold_entity applied to one row, as find, create and update *)
(* of the durable backend apply it to the row their statement returned.    *)
(* The row's label columns are drawn independently, so half-null pairs     *)
(* are among the inputs.                                                   *)
(***************************************************************************)
SingleRows ==
    {TodoWithLabelFromRow(id, text, completed, label_id, label_name) :
        id \in FoldIds, text \in Texts, completed \in BOOLEAN,
        label_id \in OptionOf(FoldIds), label_name \in OptionOf(Names)}

InitFoldOne ==
    /\ repo = "none"
    /\ StorageInit
    /\ last = NoCall
    /\ ClientsIdle
    /\ foldRows \in {<<row>> : row \in SingleRows}
    /\ foldOut = NotApplied

ApplyFoldEntity ==
    /\ foldOut = NotApplied
    /\ foldOut' = [applied |-> TRUE, out |-> fold_entity(foldRows[1])]
    /\ UNCHANGED <<repo, storage, last, clientVars, foldRows>>

NextFoldOne == ApplyFoldEntity

SpecFoldOne == InitFoldOne /\ [][NextFoldOne]_vars

(***************************************************************************)
(* C18: for every single join row r whose label_id and label_name are both *)
(* null or both non-null, fold_entity(r) returns exactly one entity with   *)
(* r's id, text and completed and with zero labels (null pair) or one      *)
(* label (non-null pair); the 'expect 1 todo' failure is not reached.      *)
(***************************************************************************)
C18_FoldEntityOne ==
    (foldOut.applied /\ (NullPair(foldRows[1]) \/ FullPair(foldRows[1]))) =>
        LET r == foldRows[1]
        IN /\ ~foldOut.out.panic
           /\ foldOut.out.val.id = r.id
           /\ foldOut.out.val.text = r.text
           /\ foldOut.out.val.completed = r.completed
           /\ foldOut.out.val.labels =
                 (IF NullPair(r) THEN <<>>
                  ELSE <<Label(r.label_id[1], r.label_name[1])>>)

\* fold_entity returned the entity of a row that carries a label
C18_Witness ==
    /\ foldOut.applied
    /\ FullPair(foldRows[1])
    /\ ~foldOut.out.panic
    /\ Len(foldOut.out.val.labels) = 1

(***************************************************************************)
(* SpecLock: tasks call the five operations of the in-memory todo backend  *)
(* concurrently.  A call takes its guard (read_store_ref for find and all, *)
(* write_store_ref for create, update and delete), runs its body on the    *)
(* store, and drops the guard when the function returns, on the `?` early  *)
(* returns as well.  MaxCalls bounds the calls issued; `calls` lists, in    *)
(* the order of return, whether each call returned Ok.                     *)
(***************************************************************************)
ReadOps == {"find", "all"}
WriteOps == {"create", "update", "delete"}

\* `self.store.read()` granted while a write guard is held
RwLockCanRead_WhileWriting(w) == TRUE

\* `self.store.read()`: granted when no write guard is held
RwLockCanRead(w) == w = 0

InitLock ==
    /\ repo = "TodoMem"
    /\ StorageInit
    /\ last = NoCall
    /\ ClientsIdle
    /\ FoldIdle

\* creates that were invoked and have not inserted yet
CreatesPending == Cardinality({c \in Clients : pc[c] = "lock" /\ local[c].op = "create"})

\* a task invokes an operation of the repository
LockCall(c, op) ==
    /\ pc[c] = "idle"
    /\ CallsStarted < MaxCalls
    /\ op = "create" => HashMapLen(store) + CreatesPending < MaxTodos
    /\ pc' = [pc EXCEPT ![c] = "lock"]
    /\ local' = [local EXCEPT ![c] = [op |-> op]]
    /\ UNCHANGED <<repo, storage, last, lockW, lockR, calls, foldVars>>

\* `self.read_store_ref()`
LockRead(c) ==
    /\ pc[c] = "lock"
    /\ local[c].op \in ReadOps
    /\ RwLockCanRead(lockW)
    /\ lockR' = lockR \cup {c}
    /\ pc' = [pc EXCEPT ![c] = "body"]
    /\ UNCHANGED <<repo, storage, last, lockW, local, calls, foldVars>>

\* `self.write_store_ref()`
LockWrite(c) ==
    /\ pc[c] = "lock"
    /\ local[c].op \in WriteOps
    /\ RwLockCanWrite(lockW, lockR)
    /\ lockW' = c
    /\ pc' = [pc EXCEPT ![c] = "body"]
    /\ UNCHANGED <<repo, storage, last, lockR, local, calls, foldVars>>

\* the body of the operation, run on the guarded store with the arguments
\* of the call; the function is about to return Ok or, from find, update
\* and delete of an absent id, Err(NotFound)
LockBody(c) ==
    /\ pc[c] = "body"
    /\ \E out \in
          CASE local[c].op = "create" ->
                   {TodoRepositoryForMemory_create(store, payload) :
                       payload \in CreateTodo}
            [] local[c].op = "find" ->
                   {[store |-> store, res |-> TodoRepositoryForMemory_find(store, id)] :
                       id \in MemIds}
            [] local[c].op = "all" ->
                   {[store |-> store, res |-> res] :
                       res \in TodoRepositoryForMemory_all(store)}
            [] local[c].op = "update" ->
                   {TodoRepositoryForMemory_update(store, id, payload) :
                       id \in MemIds, payload \in UpdateTodo}
            [] local[c].op = "delete" ->
                   {TodoRepositoryForMemory_delete(store, id) : id \in MemIds} :
          /\ store' = out.store
          /\ local' = [local EXCEPT ![c] = [op |-> local[c].op, ok |-> out.res.ok]]
    /\ pc' = [pc EXCEPT ![c] = "return"]
    /\ UNCHANGED <<repo, labelStore, todosDb, labelsDb, last, lockW, lockR, calls,
                   foldVars>>

\* the function returns its Result, Ok or Err: the guard goes out of scope
LockReturn(c) ==
    /\ pc[c] = "return"
    /\ lockW' = IF lockW = c THEN 0 ELSE lockW
    /\ lockR' = lockR \ {c}
    /\ calls' = Append(calls, local[c].ok)
    /\ pc' = [pc EXCEPT ![c] = "idle"]
    /\ local' = [local EXCEPT ![c] = NoCall]
    /\ UNCHANGED <<repo, storage, last, foldVars>>

NextLock ==
    \/ \E c \in Clients, op \in ReadOps \cup WriteOps : LockCall(c, op)
    \/ \E c \in Clients : LockRead(c)
    \/ \E c \in Clients : LockWrite(c)
    \/ \E c \in Clients : LockBody(c)
    \/ \E c \in Clients : LockReturn(c)

\* fair scheduling: a task that can take its guard, run its body or return
\* is not held up forever
FairLock ==
    \A c \in Clients :
        /\ WF_vars(LockRead(c))
        /\ WF_vars(LockWrite(c))
        /\ WF_vars(LockBody(c))
        /\ WF_vars(LockReturn(c))

SpecLock == InitLock /\ [][NextLock]_vars /\ FairLock

\* the tasks whose call holds a guard, by the kind of their operation
Holding(ops) ==
    {c \in Clients : pc[c] \in {"body", "return"} /\ local[c].op \in ops}

LockExclusion ==
    /\ Holding(WriteOps) # {} => Holding(ReadOps) = {}
    /\ Cardinality(Holding(WriteOps)) <= 1

LockReleased ==
    \A c \in Clients : pc[c] = "idle" => (lockW # c /\ c \notin lockR)

(***************************************************************************)
(* C19: on the in-memory backend readers (find, all) and writers (create,  *)
(* update, delete) never hold the store at the same time and two writers   *)
(* never do; every operation has released the lock when it has returned,   *)
(* also when it returned NotFound; and under fair scheduling every invoked *)
(* operation eventually completes, whatever ran or failed before it.       *)
(***************************************************************************)
C19_LockLiveness ==
    /\ [](LockExclusion /\ LockReleased)
    /\ \A c \in Clients : (pc[c] # "idle") ~> (pc[c] = "idle")

\* the first call to return returned NotFound, a create completed after
\* it, every call has returned and the lock is free
C19_Witness ==
    /\ \A c \in Clients : pc[c] = "idle"
    /\ lockW = 0 /\ lockR = {}
    /\ Len(calls) = MaxCalls
    /\ ~calls[1]
    /\ calls[Len(calls)]
    /\ store # EmptyMap

(***************************************************************************)
(* C21: on the in-memory todo backend a successful update(id, payload)     *)
(* leaves the key set of the store unchanged and changes no entity other   *)
(* than the one with that id, and a successful delete(id) removes exactly  *)
(* the key id and leaves every other entity unchanged.                     *)
(***************************************************************************)
C21_UpdateDeleteFrame ==
    (repo = "TodoMem" /\ last.op \in {"update", "delete"} /\ last.res.ok) =>
        /\ last.id \in DOMAIN last.pre
        /\ DOMAIN store = (IF last.op = "update"
                           THEN DOMAIN last.pre
                           ELSE DOMAIN last.pre \ {last.id})
        /\ \A k \in DOMAIN last.pre \ {last.id} : store[k] = last.pre[k]

\* an update changed one of two stored todos
C21_Witness ==
    /\ repo = "TodoMem"
    /\ last.op = "update"
    /\ last.res.ok
    /\ HashMapLen(last.pre) = 2
    /\ store[last.id] # last.pre[last.id]

(***************************************************************************)
(* The todo HTTP handlers.  A handler calls one repository operation and   *)
(* turns its Result into a response; a handler that panics (unwrap on Err, *)
(* or a panic inside the repository call) aborts without a response.       *)
(***************************************************************************)
Response(status, body) == [aborted |-> FALSE, status |-> status, body |-> body]
Aborted == [aborted |-> TRUE]
RepositoryPanicked(res) == ~res.ok /\ res.err = PanicOutcome.err

\* `.or(Err(StatusCode::NOT_FOUND))?; Ok((StatusCode::CREATED, Json(todo)))`
create_todo(res) ==
    IF RepositoryPanicked(res) THEN Aborted
    ELSE IF res.ok THEN Response("CREATED", res.val)
    ELSE Response("NOT_FOUND", <<>>)

\* `.or(Err(StatusCode::NOT_FOUND))?; Ok((StatusCode::OK, Json(todo)))`
find_todo(res) ==
    IF RepositoryPanicked(res) THEN Aborted
    ELSE IF res.ok THEN Response("OK", res.val)
    ELSE Response("NOT_FOUND", <<>>)

\* `repository.all().await.unwrap()`: an Err panics
all_todo(res) ==
    IF res.ok THEN Response("OK", res.val) ELSE Aborted

\* `.or(Err(StatusCode::NOT_FOUND))?; Ok((StatusCode::CREATED, Json(todo)))`
update_todo(res) ==
    IF RepositoryPanicked(res) THEN Aborted
    ELSE IF res.ok THEN Response("CREATED", res.val)
    ELSE Response("NOT_FOUND", <<>>)

\* `.map(|_| StatusCode::NO_CONTENT).unwrap_or(StatusCode::NOT_FOUND)`
delete_todo(res) ==
    IF RepositoryPanicked(res) THEN Aborted
    ELSE IF res.ok THEN Response("NO_CONTENT", <<>>)
    ELSE Response("NOT_FOUND", <<>>)

(***************************************************************************)
(* SpecHandlers: requests reach the handlers concurrently, over the        *)
(* in-memory or the durable todo backend.  A request is one step per       *)
(* statement its repository call issues: update_todo on the durable        *)
(* backend is two steps, and other requests run in between.  On the        *)
(* durable backend a statement may fail with a sqlx error other than       *)
(* RowNotFound (the pool timed out); the call then returns what its error  *)
(* path makes of it and the table is unchanged.                            *)
(***************************************************************************)
PoolTimedOut == "PoolTimedOut"

\* create and all pass the sqlx error on with `?`
PassedOn(e) == Err(SqlxError(e))
\* find (and update through it) and delete run it through map_err
Mapped(e, id) == Err(MapSqlxError(e, id))

InitHandlers ==
    /\ repo \in {"TodoMem", "TodoDb"}
    /\ StorageInit
    /\ last = NoCall
    /\ ClientsIdle
    /\ FoldIdle

\* the storage fails only where there is one
CanFail(fail) == fail => repo = "TodoDb"

HandleCreateTodo(payload, fail) ==
    /\ CanFail(fail)
    /\ ~fail => IF repo = "TodoMem" THEN HashMapLen(store) < MaxTodos
                ELSE todosDb.serial < MaxSerial
    /\ LET out == IF fail THEN [store |-> store, db |-> todosDb,
                                res |-> PassedOn(PoolTimedOut)]
                  ELSE IF repo = "TodoMem"
                  THEN LET m == TodoRepositoryForMemory_create(store, payload)
                       IN [store |-> m.store, db |-> todosDb, res |-> m.res]
                  ELSE LET d == TodoRepositoryForDb_create(todosDb, payload)
                       IN [store |-> store, db |-> d.db, res |-> d.res]
       IN /\ store' = out.store
          /\ todosDb' = out.db
          /\ last' = [op |-> "create_todo", res |-> out.res,
                      response |-> create_todo(out.res)]
    /\ UNCHANGED <<repo, labelStore, labelsDb, clientVars, foldVars>>

HandleFindTodo(id, fail) ==
    /\ CanFail(fail)
    /\ LET res == IF fail THEN Mapped(PoolTimedOut, id)
                  ELSE IF repo = "TodoMem" THEN TodoRepositoryForMemory_find(store, id)
                  ELSE TodoRepositoryForDb_find(todosDb, id)
       IN last' = [op |-> "find_todo", res |-> res, response |-> find_todo(res)]
    /\ UNCHANGED <<repo, storage, clientVars, foldVars>>

HandleAllTodo(fail) ==
    /\ CanFail(fail)
    /\ \E res \in (IF fail THEN {PassedOn(PoolTimedOut)}
                   ELSE IF repo = "TodoMem" THEN TodoRepositoryForMemory_all(store)
                   ELSE {TodoRepositoryForDb_all(todosDb)}) :
          last' = [op |-> "all_todo", res |-> res, response |-> all_todo(res)]
    /\ UNCHANGED <<repo, storage, clientVars, foldVars>>

\* update_todo up to the first await that lets other requests run: the
\* whole call on the in-memory backend; on the durable backend the find of
\* TodoRepositoryForDb::update, whose Err ends the request
HandleUpdateTodo(c, id, payload, fail) ==
    /\ CanFail(fail)
    /\ pc[c] = "idle"
    /\ IF repo = "TodoMem"
       THEN LET m == TodoRepositoryForMemory_update(store, id, payload)
            IN /\ store' = m.store
               /\ last' = [op |-> "update_todo", res |-> m.res,
                           response |-> update_todo(m.res)]
               /\ UNCHANGED <<pc, local>>
       ELSE LET old_todo == IF fail THEN Mapped(PoolTimedOut, id)
                            ELSE TodoRepositoryForDb_find(todosDb, id)
            IN /\ store' = store
               /\ IF old_todo.ok
                  THEN /\ pc' = [pc EXCEPT ![c] = "write"]
                       /\ local' = [local EXCEPT ![c] =
                             [op |-> "update_todo", id |-> id, payload |-> payload,
                              old_todo |-> old_todo.val]]
                       /\ last' = last
                  ELSE /\ last' = [op |-> "update_todo", res |-> old_todo,
                                   response |-> update_todo(old_todo)]
                       /\ UNCHANGED <<pc, local>>
    /\ UNCHANGED <<repo, labelStore, todosDb, labelsDb, lockW, lockR, calls, foldVars>>

\* update_todo resumed on the durable backend: the UPDATE statement, which
\* may fail as well, and the response
HandleUpdateTodoWrite(c, fail) ==
    /\ repo = "TodoDb"
    /\ pc[c] = "write"
    /\ LET out == IF fail THEN [db |-> todosDb, res |-> PassedOn(PoolTimedOut)]
                  ELSE TodoRepositoryForDb_update_write(
                           todosDb, local[c].id, local[c].payload, local[c].old_todo)
       IN /\ todosDb' = out.db
          /\ last' = [op |-> "update_todo", res |-> out.res,
                      response |-> update_todo(out.res)]
    /\ pc' = [pc EXCEPT ![c] = "idle"]
    /\ local' = [local EXCEPT ![c] = NoCall]
    /\ UNCHANGED <<repo, store, labelStore, labelsDb, lockW, lockR, calls, foldVars>>

HandleDeleteTodo(id, fail) ==
    /\ CanFail(fail)
    /\ LET out == IF fail THEN [store |-> store, db |-> todosDb,
                                res |-> Mapped(PoolTimedOut, id)]
                  ELSE IF repo = "TodoMem"
                  THEN LET m == TodoRepositoryForMemory_delete(store, id)
                       IN [store |-> m.store, db |-> todosDb, res |-> m.res]
                  ELSE LET d == TodoRepositoryForDb_delete(todosDb, id)
                       IN [store |-> store, db |-> d.db, res |-> d.res]
       IN /\ store' = out.store
          /\ todosDb' = out.db
          /\ last' = [op |-> "delete_todo", res |-> out.res,
                      response |-> delete_todo(out.res)]
    /\ UNCHANGED <<repo, labelStore, labelsDb, clientVars, foldVars>>

NextHandlers ==
    \/ \E payload \in CreateTodo, fail \in BOOLEAN : HandleCreateTodo(payload, fail)
    \/ \E id \in MemIds \cup DbIds, fail \in BOOLEAN : HandleFindTodo(id, fail)
    \/ \E fail \in BOOLEAN : HandleAllTodo(fail)
    \/ \E c \in Clients, id \in MemIds \cup DbIds, fail \in BOOLEAN,
          payload \in (IF repo = "TodoMem" THEN UpdateTodo ELSE RacingUpdates) :
          HandleUpdateTodo(c, id, payload, fail)
    \/ \E c \in Clients, fail \in BOOLEAN : HandleUpdateTodoWrite(c, fail)
    \/ \E id \in MemIds \cup DbIds, fail \in BOOLEAN : HandleDeleteTodo(id, fail)

SpecHandlers == InitHandlers /\ [][NextHandlers]_vars

(***************************************************************************)
(* C22: the todo handlers (create_todo, find_todo, all_todo, update_todo,  *)
(* delete_todo) answer a repository NotFound error with a not-found        *)
(* response and any other repository error (Unexpected, storage failure)   *)
(* with a failure response that is not the not-found one; no handler       *)
(* aborts on a repository error.                                           *)
(***************************************************************************)
C22_ErrorTranslation ==
    (last.op # "none" /\ ~last.res.ok) =>
        /\ ~last.response.aborted
        /\ (last.response.status = "NOT_FOUND") <=> (last.res.err.kind = "NotFound")

====
